---- MODULE Spec2Model ----
(***************************************************************************)
(* Chat session and streaming response engine of locla_llm_manager:        *)
(* the SQLite store (core/database.py), ChatManager (core/chat_db.py) and  *)
(* the MainWindow slots that drive it (ui/app.py).                          *)
(*                                                                         *)
(* Texts are sequences of one-character strings.  The wall clock is the     *)
(* counter now; datetime.now().isoformat() is its value and the            *)
(* conversation id strftime("%Y%m%d_%H%M%S") is its whole second.          *)
(* chat() is only ever called with a stream_callback (ui/app.py:1515), so  *)
(* the streaming branch is the one modelled.                               *)
(***************************************************************************)
EXTENDS Integers, Sequences, FiniteSets, TLC

VARIABLES
    now,                \* wall clock, in ticks
    conversations,      \* table conversations: id -> row or NoConv
    messages,           \* table messages, in rowid order
    current_model,      \* ChatManager.current_model
    current_chat_id,    \* ChatManager.current_chat_id
    is_generating,      \* ChatManager.is_generating
    stop_requested,     \* ChatManager.stop_requested
    current_persona,    \* ChatManager.current_persona
    ui_chat_id,         \* MainWindow.current_chat_id
    ui_stop_requested,  \* MainWindow._stop_requested
    th,                 \* the WorkerThreads running do_chat: thread -> frame of chat()
    calls,              \* history: one record per chat() call entered
    user_ops,           \* history: how many things the user has done in the window
    ret                 \* the library call under examination: its arguments and result

vars == <<now, conversations, messages, current_model, current_chat_id,
          is_generating, stop_requested, current_persona, ui_chat_id,
          ui_stop_requested, th, calls, user_ops, ret>>

----------------------------------------------------------------------------
(* Bounds of the model *)

NumWorkers == 2
MaxTime == 2
MaxUserOps == 3
TicksPerSecond == 2

Workers == 1..NumWorkers
Times == 0..MaxTime
ConvIds == 0..(MaxTime \div TicksPerSecond)
Models == {"m1", "m2"}

None == -1
\* current_model before a model is chosen (None; falsy like "")
NoModel == ""
NoConv == [absent |-> TRUE]
\* no library call is under examination
NoCall == [op |-> "none"]

----------------------------------------------------------------------------
(* Texts *)

Min(a, b) == IF a < b THEN a ELSE b
Max(a, b) == IF a > b THEN a ELSE b

Whitespace == {" ", "\n", "\t"}

RECURSIVE LStrip(_)
LStrip(s) ==
    IF s = <<>> THEN s
    ELSE IF Head(s) \in Whitespace THEN LStrip(Tail(s)) ELSE s

RECURSIVE RStrip(_)
RStrip(s) ==
    IF s = <<>> THEN s
    ELSE IF s[Len(s)] \in Whitespace THEN RStrip(SubSeq(s, 1, Len(s) - 1)) ELSE s

Strip(s) == LStrip(RStrip(s))

\* s[i ..] starts with pat (1-based)
StartsAt(s, pat, i) ==
    /\ i >= 1
    /\ i + Len(pat) - 1 <= Len(s)
    /\ \A k \in 1..Len(pat) : s[i + k - 1] = pat[k]

\* str.find / the leftmost regex position: least index >= from where pat
\* occurs in s, 0 when there is none
Find(s, pat, from) ==
    LET hits == {i \in Max(from, 1)..(Len(s) - Len(pat) + 1) : StartsAt(s, pat, i)}
    IN  IF hits = {} THEN 0 ELSE CHOOSE i \in hits : \A j \in hits : i <= j

From(s, i) == SubSeq(s, i, Len(s))

----------------------------------------------------------------------------
(* filter_think_content: chat_db.py:81-148 *)

OpenThink == <<"<", "t", "h", "i", "n", "k", ">">>
CloseThink == <<"<", "/", "t", "h", "i", "n", "k", ">">>
OpenThinking == <<"<", "t", "h", "i", "n", "k", "i", "n", "g", ">">>
CloseThinking == <<"<", "/", "t", "h", "i", "n", "k", "i", "n", "g", ">">>
OpenReasoning == <<"<", "r", "e", "a", "s", "o", "n", "i", "n", "g", ">">>
CloseReasoning == <<"<", "/", "r", "e", "a", "s", "o", "n", "i", "n", "g", ">">>
ImEnd == <<"<", "|", "i", "m", "_", "e", "n", "d">>
ImStart == <<"<", "|", "i", "m", "_", "s", "t", "a", "r", "t">>

OpenTags == <<OpenThink, OpenThinking, OpenReasoning>>
CloseTags == <<CloseThink, CloseThinking, CloseReasoning>>

\* re.sub(r'<think>.*?</think>', '', s, flags=re.DOTALL)
RECURSIVE RemoveSpans(_, _, _)
RemoveSpans(s, open, close) ==
    LET i == Find(s, open, 1)
        j == IF i = 0 THEN 0 ELSE Find(s, close, i + Len(open))
    IN  IF j = 0 THEN s
        ELSE SubSeq(s, 1, i - 1) \o RemoveSpans(From(s, j + Len(close)), open, close)

\* <\|im_end\|?>+ matched at i: the index of its first ">", 0 when it does not match
MarkerMin(s, base, i) ==
    IF ~StartsAt(s, base, i) THEN 0
    ELSE LET p == i + Len(base)
             q == IF p <= Len(s) /\ s[p] = "|" THEN p + 1 ELSE p
         IN  IF q <= Len(s) /\ s[q] = ">" THEN q ELSE 0

\* the last index of the run of ">" that starts at q
RECURSIVE RunEnd(_, _)
RunEnd(s, q) == IF q + 1 <= Len(s) /\ s[q + 1] = ">" THEN RunEnd(s, q + 1) ELSE q

FirstMarker(s, base) ==
    LET hits == {i \in 1..Len(s) : MarkerMin(s, base, i) # 0}
    IN  IF hits = {} THEN 0 ELSE CHOOSE i \in hits : \A j \in hits : i <= j

\* re.sub(r'<\|im_end\|?>+.*?</think>', '', s, flags=re.DOTALL)
RECURSIVE RemoveTemplateSpans(_, _)
RemoveTemplateSpans(s, close) ==
    LET i == FirstMarker(s, ImEnd)
        j == IF i = 0 THEN 0 ELSE Find(s, close, MarkerMin(s, ImEnd, i) + 1)
    IN  IF j = 0 THEN s
        ELSE SubSeq(s, 1, i - 1) \o RemoveTemplateSpans(From(s, j + Len(close)), close)

\* the index of the close tag that '>[^<]*</think>' reaches from a ">" at i, or 0
CloseAfter(s, close, i) ==
    LET k == Find(s, <<"<">>, i + 1)
    IN  IF k # 0 /\ StartsAt(s, close, k) THEN k ELSE 0

\* re.sub(r'>[^<]*</think>', '>', s, flags=re.DOTALL), scanning from index p
RECURSIVE ReplaceAfterGt(_, _, _)
ReplaceAfterGt(s, close, p) ==
    LET hits == {i \in p..Len(s) : s[i] = ">" /\ CloseAfter(s, close, i) # 0}
    IN  IF hits = {} THEN From(s, p)
        ELSE LET i == CHOOSE x \in hits : \A y \in hits : x <= y
             IN  SubSeq(s, p, i)
                 \o ReplaceAfterGt(s, close, CloseAfter(s, close, i) + Len(close))

\* re.sub(r'^[^<]*</think>', '', s, flags=re.DOTALL)
RemoveStartIncomplete(s, close) ==
    LET k == Find(s, <<"<">>, 1)
    IN  IF k # 0 /\ StartsAt(s, close, k) THEN From(s, k + Len(close)) ELSE s

\* re.sub(r'<think>[^<]*$', '', s, flags=re.DOTALL)
RemoveOpenTail(s, open) ==
    LET hits == {i \in 1..Len(s) :
                    StartsAt(s, open, i) /\ Find(s, <<"<">>, i + Len(open)) = 0}
    IN  IF hits = {} THEN s
        ELSE SubSeq(s, 1, (CHOOSE i \in hits : \A j \in hits : i <= j) - 1)

\* re.sub(r'<\|im_end\|?>+', '', s)
RECURSIVE RemoveMarkers(_, _)
RemoveMarkers(s, base) ==
    LET i == FirstMarker(s, base)
    IN  IF i = 0 THEN s
        ELSE SubSeq(s, 1, i - 1)
             \o RemoveMarkers(From(s, RunEnd(s, MarkerMin(s, base, i)) + 1), base)

RECURSIVE NewlineRun(_)
NewlineRun(s) == IF s # <<>> /\ Head(s) = "\n" THEN 1 + NewlineRun(Tail(s)) ELSE 0

\* re.sub(r'\n{3,}', '\n\n', s)
RECURSIVE CollapseNewlines(_)
CollapseNewlines(s) ==
    IF s = <<>> THEN s
    ELSE LET r == NewlineRun(s)
         IN  IF r >= 3 THEN <<"\n", "\n">> \o CollapseNewlines(From(s, r + 1))
             ELSE IF r >= 1 THEN SubSeq(s, 1, r) \o CollapseNewlines(From(s, r + 1))
             ELSE <<Head(s)>> \o CollapseNewlines(Tail(s))

RECURSIVE ApplySpans(_, _)
ApplySpans(s, n) ==
    IF n > Len(OpenTags) THEN s
    ELSE ApplySpans(RemoveSpans(s, OpenTags[n], CloseTags[n]), n + 1)

RECURSIVE ApplyTemplateSpans(_, _)
ApplyTemplateSpans(s, n) ==
    IF n > Len(CloseTags) THEN s
    ELSE ApplyTemplateSpans(RemoveTemplateSpans(s, CloseTags[n]), n + 1)

RECURSIVE ApplyAfterGt(_, _)
ApplyAfterGt(s, n) ==
    IF n > Len(CloseTags) THEN s
    ELSE ApplyAfterGt(ReplaceAfterGt(s, CloseTags[n], 1), n + 1)

RECURSIVE ApplyStartIncomplete(_, _)
ApplyStartIncomplete(s, n) ==
    IF n > Len(CloseTags) THEN s
    ELSE ApplyStartIncomplete(RemoveStartIncomplete(s, CloseTags[n]), n + 1)

RECURSIVE ApplyOpenTail(_, _)
ApplyOpenTail(s, n) ==
    IF n > Len(OpenTags) THEN s
    ELSE ApplyOpenTail(RemoveOpenTail(s, OpenTags[n]), n + 1)

filter_think_content(text) ==
    LET a == ApplySpans(text, 1)
        b == ApplyTemplateSpans(a, 1)
        c == ApplyAfterGt(b, 1)
        d == ApplyStartIncomplete(c, 1)
        e == ApplyOpenTail(d, 1)
        f == RemoveMarkers(RemoveMarkers(e, ImEnd), ImStart)
    IN  Strip(CollapseNewlines(f))

----------------------------------------------------------------------------
(* extract_think_content: chat_db.py:151-219, and its copy in               *)
(* ui/components.py:78-199.  Every pattern is matched against the text as   *)
(* it was passed in.                                                        *)

\* re.findall(r'<think>(.*?)</think>', s, flags=re.DOTALL)
RECURSIVE SpanInteriors(_, _, _)
SpanInteriors(s, open, close) ==
    LET i == Find(s, open, 1)
        j == IF i = 0 THEN 0 ELSE Find(s, close, i + Len(open))
    IN  IF j = 0 THEN <<>>
        ELSE <<SubSeq(s, i + Len(open), j - 1)>>
             \o SpanInteriors(From(s, j + Len(close)), open, close)

\* re.findall(r'<\|im_end\|?>+(.*?)</think>', s, flags=re.DOTALL)
RECURSIVE TemplateInteriors(_, _)
TemplateInteriors(s, close) ==
    LET i == FirstMarker(s, ImEnd)
        g == IF i = 0 THEN 0 ELSE RunEnd(s, MarkerMin(s, ImEnd, i))
        j == IF i = 0 THEN 0 ELSE Find(s, close, g + 1)
    IN  IF j = 0 THEN <<>>
        ELSE <<SubSeq(s, g + 1, j - 1)>>
             \o TemplateInteriors(From(s, j + Len(close)), close)

\* re.findall(r'>([^<]*)</think>', s, flags=re.DOTALL), scanning from index p
RECURSIVE AfterGtInteriors(_, _, _)
AfterGtInteriors(s, close, p) ==
    LET hits == {i \in p..Len(s) : s[i] = ">" /\ CloseAfter(s, close, i) # 0}
    IN  IF hits = {} THEN <<>>
        ELSE LET i == CHOOSE x \in hits : \A y \in hits : x <= y
                 k == CloseAfter(s, close, i)
             IN  <<SubSeq(s, i + 1, k - 1)>>
                 \o AfterGtInteriors(s, close, k + Len(close))

\* re.match(r'^([^<]*)</think>', s, flags=re.DOTALL): group 1 when it matches
StartInterior(s, close) ==
    LET k == Find(s, <<"<">>, 1)
    IN  IF k # 0 /\ StartsAt(s, close, k) THEN <<SubSeq(s, 1, k - 1)>> ELSE <<>>

\* re.search(r'<think>([^<]*)$', s, flags=re.DOTALL): group 1 when it matches
OpenTailInterior(s, open) ==
    LET hits == {i \in 1..Len(s) :
                    StartsAt(s, open, i) /\ Find(s, <<"<">>, i + Len(open)) = 0}
    IN  IF hits = {} THEN <<>>
        ELSE <<From(s, (CHOOSE i \in hits : \A j \in hits : i <= j) + Len(open))>>

\* think_parts, in the order the five loops extend it
think_parts(text) ==
    SpanInteriors(text, OpenThink, CloseThink)
    \o SpanInteriors(text, OpenThinking, CloseThinking)
    \o SpanInteriors(text, OpenReasoning, CloseReasoning)
    \o TemplateInteriors(text, CloseThink)
    \o TemplateInteriors(text, CloseThinking)
    \o TemplateInteriors(text, CloseReasoning)
    \o AfterGtInteriors(text, CloseThink, 1)
    \o AfterGtInteriors(text, CloseThinking, 1)
    \o AfterGtInteriors(text, CloseReasoning, 1)
    \o StartInterior(text, CloseThink)
    \o StartInterior(text, CloseThinking)
    \o StartInterior(text, CloseReasoning)
    \o OpenTailInterior(text, OpenThink)
    \o OpenTailInterior(text, OpenThinking)
    \o OpenTailInterior(text, OpenReasoning)

\* '\n'.join([p.strip() for p in parts if p.strip()])
RECURSIVE JoinStripped(_)
JoinStripped(parts) ==
    IF parts = <<>> THEN <<>>
    ELSE LET head == Strip(Head(parts))
             rest == JoinStripped(Tail(parts))
         IN  IF head = <<>> THEN rest
             ELSE IF rest = <<>> THEN head
             ELSE head \o <<"\n">> \o rest

\* (think_content, main_content)
extract_think_content(text) ==
    [think_content |-> JoinStripped(think_parts(text)),
     main_content |-> filter_think_content(text)]

----------------------------------------------------------------------------
(* RepeatDetector: chat_db.py:222-283 *)

MinPatternLen == 20
MaxRepeats == 3
MaxPatternLen == 200
CheckWindow == 2000

\* the counting loop of check(): occurrences found by find(pattern, pos), pos = found + 1
RECURSIVE CountFrom(_, _, _)
CountFrom(s, pat, pos) ==
    LET found == Find(s, pat, pos)
    IN  IF found = 0 THEN 0 ELSE 1 + CountFrom(s, pat, found + 1)

NoDetection == [hit |-> FALSE, detected_pattern |-> <<>>, first_occurrence |-> 0]

\* check(text): the verdict and the detector fields it leaves (offsets 0-based)
RepeatCheck(text) ==
    IF Len(text) < MinPatternLen * 2 THEN NoDetection
    ELSE LET check_len == Min(Len(text), CheckWindow)
             check_text == From(text, Len(text) - check_len + 1)
             Suffix(L) == From(check_text, check_len - L + 1)
             hits == {L \in MinPatternLen..(Min(MaxPatternLen, check_len \div 2) - 1) :
                         CountFrom(check_text, Suffix(L), 1) >= MaxRepeats}
         IN  IF hits = {} THEN NoDetection
             ELSE LET L == CHOOSE x \in hits : \A y \in hits : x <= y
                  IN  [hit |-> TRUE,
                       detected_pattern |-> Suffix(L),
                       first_occurrence |->
                           Len(text) - check_len + (Find(check_text, Suffix(L), 1) - 1)]

\* truncate(text) on a detector whose fields are d
RepeatTruncate(d, text) ==
    IF d.detected_pattern # <<>> /\ d.first_occurrence > 0
    THEN RStrip(SubSeq(text, 1, d.first_occurrence + Len(d.detected_pattern)))
    ELSE text

----------------------------------------------------------------------------
(* The store: core/database.py.  get_connection never issues               *)
(* PRAGMA foreign_keys = ON, so SQLite leaves the FOREIGN KEY clause of    *)
(* the messages table unenforced.                                          *)

ConvRow(title, persona, t) ==
    [title |-> title, persona |-> persona, created_at |-> t, updated_at |-> t]

ConvExists(cs, conv_id) == conv_id \in ConvIds /\ cs[conv_id] # NoConv

\* INSERT INTO conversations; a duplicate id violates the PRIMARY KEY, the
\* exception is logged and False returned
create_conversation(cs, conv_id, title, persona, t) ==
    IF ConvExists(cs, conv_id) THEN cs
    ELSE [cs EXCEPT ![conv_id] = ConvRow(title, persona, t)]

\* update_conversation(conv_id, title=title): UPDATE ... SET title, updated_at = now
update_conversation(cs, conv_id, title, t) ==
    IF ConvExists(cs, conv_id)
    THEN [cs EXCEPT ![conv_id].title = title, ![conv_id].updated_at = t]
    ELSE cs

get_conversation(cs, conv_id) == IF ConvExists(cs, conv_id) THEN cs[conv_id] ELSE NoConv

\* DELETE FROM conversations WHERE id = ?; without the pragma nothing cascades
delete_conversation(cs, conv_id) == [cs EXCEPT ![conv_id] = NoConv]

\* add_message, first statement: INSERT INTO messages + commit.  A NULL
\* conversation_id violates NOT NULL and inserts nothing; any other id is taken.
\* turn is history: the chat() call that wrote the row (0: none).
add_message_insert(ms, conv_id, model, role, content, timestamp, turn) ==
    IF conv_id = None THEN ms
    ELSE Append(ms, [id |-> Len(ms) + 1, conversation_id |-> conv_id, model |-> model,
                     role |-> role, content |-> content, timestamp |-> timestamp,
                     turn |-> turn])

\* add_message, second statement: UPDATE conversations SET updated_at = timestamp
\* + commit.  fails: the statement raises after the INSERT was committed
\* (locked database, I/O error); the exception is logged and None returned.
add_message_update(cs, conv_id, timestamp, fails) ==
    IF ~fails /\ ConvExists(cs, conv_id)
    THEN [cs EXCEPT ![conv_id].updated_at = timestamp]
    ELSE cs

\* the rowids of the rows SELECT ... WHERE conversation_id = ? picks
RowsOf(ms, conv_id) == {i \in 1..Len(ms) : ms[i].conversation_id = conv_id}

\* every order ORDER BY timestamp ASC allows for the rows S: SQLite leaves the
\* order of rows with equal ORDER BY values undefined
RECURSIVE OrderedBy(_, _)
OrderedBy(ms, S) ==
    IF S = {} THEN {<<>>}
    ELSE UNION {{<<ms[i]>> \o r : r \in OrderedBy(ms, S \ {i})} :
                  i \in {x \in S : \A y \in S : ms[x].timestamp <= ms[y].timestamp}}

\* the results get_messages(conv_id) can return
get_messages(ms, conv_id) == OrderedBy(ms, RowsOf(ms, conv_id))

\* get_messages_by_model without its AND model = ? condition
get_messages_any_model(ms, conv_id, model) == OrderedBy(ms, RowsOf(ms, conv_id))

\* the results get_messages_by_model(conv_id, model) can return
get_messages_by_model(ms, conv_id, model) ==
    OrderedBy(ms, {i \in RowsOf(ms, conv_id) : ms[i].model = model})

----------------------------------------------------------------------------
(* Personas.  The table holds the built-in assistant "default" and one      *)
(* roleplay persona that has no opening scene configured, so that          *)
(* _start_roleplay_conversation (app.py:738-775) writes no message.        *)

Personas == {"default", "rp"}

\* get_current_persona().get('type', 'assistant')
PersonaType(key) == IF key = "rp" THEN "roleplay" ELSE "assistant"

----------------------------------------------------------------------------
(* Error texts of chat(): each is one atom naming the text's category       *)

ErrConnection == <<"[cannot connect to the model engine]">>
ErrTimeout == <<"[request timed out]">>
ErrEmpty == <<"[the model returned an empty reply]">>
ErrUnsupported == <<"[ollama version does not support the model]">>
ErrModelNotFound == <<"[model not found, download it again]">>
ErrOutOfMemory == <<"[out of memory]">>
ErrTerminated == <<"[model terminated abnormally]">>
ErrModelRun == <<"[model run error]">>
ErrNoSuchModel(model) == <<"[model does not exist]", model>>
ErrBadRequest == <<"[bad request]">>
ErrUnavailable == <<"[engine unavailable]">>
ErrHttpTimeout == <<"[http request timeout]">>
ErrServer(status_code) == <<"[server error]", ToString(status_code)>>
StoppedNotice == <<"[stopped]">>
RepeatNotice == <<"[repeated content detected, stopped]">>

\* _parse_ollama_error; error_text is the set of the phrases the body contains
_parse_ollama_error(status_code, error_text, model) ==
    IF status_code = 500 THEN
        IF "not supported by your version" \in error_text \/ "need to upgrade" \in error_text
            THEN ErrUnsupported
        ELSE IF "model not found" \in error_text THEN ErrModelNotFound
        ELSE IF "out of memory" \in error_text \/ "oom" \in error_text THEN ErrOutOfMemory
        ELSE IF "terminated" \in error_text THEN ErrTerminated
        ELSE ErrModelRun
    ELSE IF status_code = 404 THEN ErrNoSuchModel(model)
    ELSE IF status_code = 400 THEN ErrBadRequest
    ELSE IF status_code = 503 THEN ErrUnavailable
    ELSE IF status_code = 408 THEN ErrHttpTimeout
    ELSE ErrServer(status_code)

----------------------------------------------------------------------------
(* What the inference server can answer *)

Pattern20 == <<"a", "b", "c", "d", "e", "f", "g", "h", "i", "j",
               "k", "l", "m", "n", "o", "p", "q", "r", "s", "t">>

\* the lines of a 200 response: the content chunk of each (<<>>: no content,
\* as in the closing {"done": true} line)
Streams == <<
    << <<"o", "k">>, <<>> >>,
    << <<>> >>,
    << OpenThink \o <<"x">> \o CloseThink, <<>> >>,
    << <<"x">> \o Pattern20 \o Pattern20, Pattern20, <<"y">> >>
  >>

Responses ==
    {[kind |-> "connection"], [kind |-> "timeout"],
     [kind |-> "http", status_code |-> 404, error_text |-> {}],
     [kind |-> "http", status_code |-> 500, error_text |-> {"model not found", "oom"}]}
    \cup {[kind |-> "ok", stream |-> k] : k \in 1..Len(Streams)}

UserTexts == {<<"h", "i">>}

----------------------------------------------------------------------------
(* State *)

\* the frame of one do_chat thread; pc is the place chat() has reached
IdleFrame ==
    [pc |-> "idle", call |-> 0, user_message |-> <<>>, timestamp |-> 0,
     roleplay |-> FALSE, full_response |-> <<>>, should_stop |-> FALSE,
     stream |-> 0, pos |-> 0]

DoneFrame(call) == [IdleFrame EXCEPT !.pc = "done", !.call = call]

\* datetime.now().strftime("%Y%m%d_%H%M%S")
ChatIdAt(t) == t \div TicksPerSecond

Init ==
    /\ now = 0
    /\ conversations = [c \in ConvIds |-> NoConv]
    /\ messages = <<>>
    /\ current_model = NoModel
    /\ current_chat_id = None
    /\ is_generating = FALSE
    /\ stop_requested = FALSE
    /\ current_persona = "default"
    /\ ui_chat_id = None
    /\ ui_stop_requested = FALSE
    /\ th = [w \in Workers |-> IdleFrame]
    /\ calls = <<>>
    /\ user_ops = 0
    /\ ret = NoCall

\* how a call ended, kept in calls: the outcome, whether the repeat detector had
\* tripped, and the accumulator a completed turn ended with
Ended(call, outcome, error, f) ==
    [calls EXCEPT ![call].outcome = outcome, ![call].error = error,
                  ![call].tripped = f.should_stop,
                  ![call].full_response =
                      IF outcome = "completed" THEN f.full_response ELSE <<>>]

----------------------------------------------------------------------------
(* The clock *)

Tick ==
    /\ now < MaxTime
    /\ now' = now + 1
    /\ UNCHANGED <<conversations, messages, current_model, current_chat_id,
                   is_generating, stop_requested, current_persona, ui_chat_id,
                   ui_stop_requested, th, calls, user_ops, ret>>

----------------------------------------------------------------------------
(* ChatManager.chat, chat_db.py:456-692, one action per stretch that no     *)
(* other thread can observe being split                                    *)

\* 465-469: the two guards; is_generating is read here and written in ChatEnter
ChatCheck(w) ==
    /\ th[w].pc = "call"
    /\ LET call == Len(calls) + 1
           outcome == IF current_model = NoModel THEN "no_model"
                      ELSE IF is_generating THEN "rejected"
                      ELSE "running"
       IN  /\ calls' = Append(calls, [outcome |-> outcome, error |-> "none",
                                      tripped |-> FALSE, full_response |-> <<>>])
           /\ th' = [th EXCEPT ![w] =
                        IF outcome = "running"
                        THEN [th[w] EXCEPT !.pc = "set", !.call = call]
                        ELSE DoneFrame(call)]
    /\ UNCHANGED <<now, user_ops, ret, conversations, messages, current_model, current_chat_id,
                   is_generating, stop_requested, current_persona, ui_chat_id,
                   ui_stop_requested>>

\* 471-486: is_generating = True, new_chat if there is no current chat, the
\* user message is written
ChatEnter(w) ==
    /\ th[w].pc = "set"
    /\ is_generating' = TRUE
    /\ LET fresh == current_chat_id = None
           chat_id == IF fresh THEN ChatIdAt(now) ELSE current_chat_id
           cs == IF fresh
                 THEN create_conversation(conversations, chat_id, <<>>, current_persona, now)
                 ELSE conversations
       IN  /\ current_chat_id' = chat_id
           /\ messages' = add_message_insert(messages, chat_id, current_model, "user",
                                             th[w].user_message, now, th[w].call)
           /\ \E fails \in BOOLEAN :
                 conversations' = add_message_update(cs, chat_id, now, fails)
           /\ th' = [th EXCEPT ![w].pc = "title", ![w].timestamp = now]
    /\ UNCHANGED <<now, user_ops, ret, current_model, stop_requested, current_persona, ui_chat_id,
                   ui_stop_requested, calls>>

\* user_message[:15], "..." appended when it is longer
TitleLen == 15
TitleOf(user_message) ==
    IF Len(user_message) > TitleLen
    THEN SubSeq(user_message, 1, TitleLen) \o <<".", ".", ".">>
    ELSE user_message

\* 488-542: the title, the persona, the request is sent.  conv['title'] on a
\* conversation that is gone raises TypeError: the handler at 686 returns a
\* text and persists nothing, finally clears is_generating.
ChatOpen(w) ==
    /\ th[w].pc = "title"
    /\ LET conv == get_conversation(conversations, current_chat_id)
       IN  IF conv = NoConv
           THEN /\ is_generating' = FALSE
                /\ calls' = Ended(th[w].call, "failed", "exception", th[w])
                /\ th' = [th EXCEPT ![w] = DoneFrame(th[w].call)]
                /\ UNCHANGED conversations
           ELSE /\ conversations' =
                        IF conv.title = <<>>
                        THEN update_conversation(conversations, current_chat_id,
                                                 TitleOf(th[w].user_message), now)
                        ELSE conversations
                /\ th' = [th EXCEPT ![w].pc = "wait",
                                    ![w].roleplay = (PersonaType(current_persona) = "roleplay")]
                /\ UNCHANGED <<is_generating, calls>>
    /\ UNCHANGED <<now, user_ops, ret, messages, current_model, current_chat_id, stop_requested,
                   current_persona, ui_chat_id, ui_stop_requested>>

\* _save_error_response(error_msg, timestamp) and the return through finally
SaveErrorAndReturn(w, error, error_msg) ==
    /\ messages' = add_message_insert(messages, current_chat_id, current_model,
                                      "assistant", error_msg, th[w].timestamp, th[w].call)
    /\ \E fails \in BOOLEAN :
          conversations' = add_message_update(conversations, current_chat_id,
                                              th[w].timestamp, fails)
    /\ is_generating' = FALSE
    /\ calls' = Ended(th[w].call, "failed", error, th[w])
    /\ th' = [th EXCEPT ![w] = DoneFrame(th[w].call)]

\* 536-566: requests.post returns or raises
ChatResponse(w, r) ==
    /\ th[w].pc = "wait"
    /\ IF r.kind = "ok"
       THEN /\ th' = [th EXCEPT ![w].pc = "stream", ![w].stream = r.stream]
            /\ UNCHANGED <<conversations, messages, is_generating, calls>>
       ELSE SaveErrorAndReturn(w, r.kind,
                CASE r.kind = "connection" -> ErrConnection
                  [] r.kind = "timeout" -> ErrTimeout
                  [] r.kind = "http" ->
                        _parse_ollama_error(r.status_code, r.error_text, current_model))
    /\ UNCHANGED <<now, user_ops, ret, current_model, current_chat_id, stop_requested,
                   current_persona, ui_chat_id, ui_stop_requested>>

\* 606-639: after the loop, user_stopped false
FinishTurn(w) ==
    IF Strip(th[w].full_response) = <<>>
    THEN SaveErrorAndReturn(w, "empty", ErrEmpty)
    ELSE /\ messages' = add_message_insert(messages, current_chat_id, current_model,
                "assistant",
                IF th[w].roleplay THEN filter_think_content(th[w].full_response)
                ELSE th[w].full_response,
                th[w].timestamp, th[w].call)
         /\ \E fails \in BOOLEAN :
               conversations' = add_message_update(conversations, current_chat_id,
                                                   th[w].timestamp, fails)
         /\ is_generating' = FALSE
         /\ calls' = Ended(th[w].call, "completed", "none", th[w])
         /\ th' = [th EXCEPT ![w] = DoneFrame(th[w].call)]

\* a stop that rolled the turn back: the user message is deleted again
StopTurnRollsBack(w) ==
    /\ is_generating' = FALSE
    /\ calls' = Ended(th[w].call, "stopped", "none", th[w])
    /\ th' = [th EXCEPT ![w] = DoneFrame(th[w].call)]
    /\ messages' = SelectSeq(messages, LAMBDA m : m.turn # th[w].call)
    /\ UNCHANGED conversations

\* 576-581, 609-611: the stop flag is seen, nothing more is written
StopTurn(w) ==
    /\ is_generating' = FALSE
    /\ calls' = Ended(th[w].call, "stopped", "none", th[w])
    /\ th' = [th EXCEPT ![w] = DoneFrame(th[w].call)]
    /\ UNCHANGED <<conversations, messages>>

\* 588-602: one chunk is appended and checked
TakeChunk(w, chunk) ==
    LET full == th[w].full_response \o chunk
        d == IF chunk = <<>> THEN NoDetection ELSE RepeatCheck(full)
    IN  /\ th' = [th EXCEPT ![w].pos = th[w].pos + 1,
                            ![w].full_response = IF d.hit THEN RepeatTruncate(d, full) ELSE full,
                            ![w].should_stop = d.hit]
        /\ UNCHANGED <<conversations, messages, is_generating, calls>>

\* a loop body that looks at should_stop before it looks at the stop flag
LoopBodyRepeatFirst(w) ==
    IF th[w].should_stop THEN FinishTurn(w)
    ELSE IF stop_requested THEN StopTurn(w)
    ELSE TakeChunk(w, Streams[th[w].stream][th[w].pos + 1])

\* 574-604: iter_lines yields the next line; one pass of the loop body
LoopBody(w) ==
    IF stop_requested THEN StopTurn(w)
    ELSE IF th[w].should_stop THEN FinishTurn(w)
    ELSE TakeChunk(w, Streams[th[w].stream][th[w].pos + 1])

ChatLine(w) ==
    /\ th[w].pc = "stream"
    /\ th[w].pos < Len(Streams[th[w].stream])
    /\ LoopBody(w)
    /\ UNCHANGED <<now, user_ops, ret, current_model, current_chat_id, stop_requested,
                   current_persona, ui_chat_id, ui_stop_requested>>

\* 574: iter_lines is exhausted, the loop ends without another pass
ChatStreamEnd(w) ==
    /\ th[w].pc = "stream"
    /\ th[w].pos = Len(Streams[th[w].stream])
    /\ FinishTurn(w)
    /\ UNCHANGED <<now, user_ops, ret, current_model, current_chat_id, stop_requested,
                   current_persona, ui_chat_id, ui_stop_requested>>

\* an except clause that returns with no finally clause behind it
ChatReadErrorNoFinally(w) ==
    /\ th[w].pc = "stream"
    /\ calls' = Ended(th[w].call, "failed", "stream_read", th[w])
    /\ th' = [th EXCEPT ![w] = DoneFrame(th[w].call)]
    /\ UNCHANGED <<now, user_ops, ret, conversations, messages, current_model, current_chat_id,
                   is_generating, stop_requested, current_persona, ui_chat_id,
                   ui_stop_requested>>

\* 574: iter_lines raises (read timeout, connection dropped); 686-692 returns a
\* text, persists nothing
ChatReadError(w) ==
    /\ th[w].pc = "stream"
    /\ is_generating' = FALSE
    /\ calls' = Ended(th[w].call, "failed", "stream_read", th[w])
    /\ th' = [th EXCEPT ![w] = DoneFrame(th[w].call)]
    /\ UNCHANGED <<now, user_ops, ret, conversations, messages, current_model, current_chat_id,
                   stop_requested, current_persona, ui_chat_id, ui_stop_requested>>

----------------------------------------------------------------------------
(* MainWindow slots, ui/app.py; each runs to its end on the UI thread *)

\* ChatManager.save_history(chat_id), chat_db.py:815-831: the current chat id
\* and the conversations table it leaves
SaveHistoryId(chat_id) == IF chat_id # None THEN chat_id ELSE current_chat_id

SaveHistoryConvs(chat_id) ==
    LET id == SaveHistoryId(chat_id)
    IN  IF ConvExists(conversations, id)
        THEN update_conversation(conversations, id, conversations[id].title, now)
        ELSE conversations

\* save_current_chat, app.py:1131-1137
SaveCurrentConvs == IF ui_chat_id # None THEN SaveHistoryConvs(ui_chat_id) ELSE conversations

\* the do_chat threads that have not entered chat() yet
Starting == {w \in Workers : th[w].pc = "call"}

\* on_model_changed, app.py:1460-1468
SetModel(m) ==
    /\ m # current_model
    /\ current_model' = m
    /\ user_ops < MaxUserOps
    /\ user_ops' = user_ops + 1
    /\ UNCHANGED ret
    /\ UNCHANGED <<now, conversations, messages, current_chat_id, is_generating,
                   stop_requested, current_persona, ui_chat_id, ui_stop_requested,
                   th, calls>>

\* send_message, app.py:1470-1522, enabled whenever the slot's own guards let
\* it through; the new WorkerThread is the first free one
SendMessage(w, text) ==
    /\ th[w].pc = "idle"
    /\ \A v \in Workers : th[v].pc = "idle" => w <= v
    /\ user_ops < MaxUserOps
    /\ user_ops' = user_ops + 1
    /\ UNCHANGED ret
    /\ current_model # NoModel
    /\ ~is_generating
    /\ ui_stop_requested' = FALSE
    /\ stop_requested' = FALSE
    /\ IF ui_chat_id = None
       THEN /\ current_persona' = "default"
            /\ conversations' = create_conversation(conversations, ChatIdAt(now), <<>>,
                                                    "default", now)
            /\ current_chat_id' = ChatIdAt(now)
            /\ ui_chat_id' = ChatIdAt(now)
       ELSE UNCHANGED <<current_persona, conversations, current_chat_id, ui_chat_id>>
    /\ th' = [th EXCEPT ![w] = [IdleFrame EXCEPT !.pc = "call", !.user_message = text]]
    /\ UNCHANGED <<now, messages, current_model, is_generating, calls>>

\* stop_generation, app.py:1524-1530; the stop button shows while a turn runs
StopGeneration ==
    /\ \E w \in Workers : th[w].pc # "idle"
    /\ ~(stop_requested /\ ui_stop_requested)
    /\ ui_stop_requested' = TRUE
    /\ stop_requested' = TRUE
    /\ user_ops < MaxUserOps
    /\ user_ops' = user_ops + 1
    /\ UNCHANGED ret
    /\ UNCHANGED <<now, conversations, messages, current_model, current_chat_id,
                   is_generating, current_persona, ui_chat_id, th, calls>>

\* the stop_generation() that new_chat, new_chat_with_persona and load_history
\* call first when is_generating (the dialog confirmed)
StopIfGenerating ==
    /\ ui_stop_requested' = (IF is_generating THEN TRUE ELSE ui_stop_requested)
    /\ stop_requested' = (IF is_generating THEN TRUE ELSE stop_requested)

\* new_chat / new_role_chat, app.py:1139-1204
NewChat ==
    /\ ui_chat_id # None
    /\ StopIfGenerating
    /\ conversations' = SaveCurrentConvs
    /\ current_chat_id' = SaveHistoryId(ui_chat_id)
    /\ ui_chat_id' = None
    /\ user_ops < MaxUserOps
    /\ user_ops' = user_ops + 1
    /\ UNCHANGED ret
    /\ UNCHANGED <<now, messages, current_model, is_generating, current_persona,
                   th, calls>>

\* new_chat_with_persona, app.py:616-650, with ChatManager.new_chat
NewChatWithPersona(persona_key) ==
    /\ StopIfGenerating
    /\ conversations' = create_conversation(SaveCurrentConvs, ChatIdAt(now), <<>>,
                                            persona_key, now)
    /\ current_persona' = persona_key
    /\ current_chat_id' = ChatIdAt(now)
    /\ ui_chat_id' = ChatIdAt(now)
    /\ user_ops < MaxUserOps
    /\ user_ops' = user_ops + 1
    /\ UNCHANGED ret
    /\ UNCHANGED <<now, messages, current_model, is_generating, th, calls>>

\* load_history, app.py:1206-1357, with ChatManager.load_history; the model of
\* the last message, or a fallback, becomes the current one when Ollama has it
LoadHistory(chat_id) ==
    /\ ConvExists(conversations, chat_id)
    /\ StopIfGenerating
    /\ current_chat_id' = chat_id
    /\ current_persona' = conversations[chat_id].persona
    /\ current_model' \in (IF RowsOf(messages, chat_id) = {} THEN {current_model}
                           ELSE Models \cup {current_model})
    /\ ui_chat_id' = chat_id
    /\ user_ops < MaxUserOps
    /\ user_ops' = user_ops + 1
    /\ UNCHANGED ret
    /\ UNCHANGED <<now, conversations, messages, is_generating, th, calls>>

\* delete_history, app.py:1360-1458, with ChatManager.delete_history
DeleteHistory(chat_id) ==
    /\ ConvExists(conversations, chat_id)
    /\ conversations' = delete_conversation(conversations, chat_id)
    /\ user_ops < MaxUserOps
    /\ user_ops' = user_ops + 1
    /\ UNCHANGED ret
    /\ UNCHANGED <<now, messages, current_model, current_chat_id, is_generating,
                   stop_requested, current_persona, ui_chat_id, ui_stop_requested,
                   th, calls>>

\* on_chat_done, app.py:1532-1570, on the finished signal of thread w
OnChatDone(w) ==
    /\ th[w].pc = "done"
    /\ th' = [th EXCEPT ![w] = IdleFrame]
    /\ IF ui_stop_requested
       THEN /\ ui_stop_requested' = FALSE
            /\ UNCHANGED <<conversations, current_chat_id>>
       ELSE /\ conversations' = SaveCurrentConvs
            /\ current_chat_id' = IF ui_chat_id # None THEN ui_chat_id ELSE current_chat_id
            /\ UNCHANGED ui_stop_requested
    /\ UNCHANGED <<now, user_ops, ret, messages, current_model, is_generating, stop_requested,
                   current_persona, ui_chat_id, calls>>

----------------------------------------------------------------------------

Next ==
    \/ Tick
    \/ \E m \in Models : SetModel(m)
    \/ \E w \in Workers, text \in UserTexts : SendMessage(w, text)
    \/ StopGeneration
    \/ NewChat
    \/ \E p \in Personas : NewChatWithPersona(p)
    \/ \E c \in ConvIds : LoadHistory(c)
    \/ \E c \in ConvIds : DeleteHistory(c)
    \/ \E w \in Workers : ChatCheck(w)
    \/ \E w \in Workers : ChatEnter(w)
    \/ \E w \in Workers : ChatOpen(w)
    \/ \E w \in Workers, r \in Responses : ChatResponse(w, r)
    \/ \E w \in Workers : ChatLine(w)
    \/ \E w \in Workers : ChatStreamEnd(w)
    \/ \E w \in Workers : ChatReadError(w)
    \/ \E w \in Workers : OnChatDone(w)

Spec == Init /\ [][Next]_vars

----------------------------------------------------------------------------
(* Properties *)

Calls == 1..Len(calls)

\* the rowids of the rows chat() call c wrote with the given role
TurnRows(c, role) ==
    {i \in 1..Len(messages) : messages[i].turn = c /\ messages[i].role = role}

\* the do_chat threads between is_generating = True and the finally clause
InFlight == {w \in Workers : th[w].pc \in {"title", "wait", "stream"}}

\* the texts chat() classifies a failure into
ClassifiedTexts ==
    {ErrConnection, ErrTimeout, ErrEmpty, ErrUnsupported, ErrModelNotFound,
     ErrOutOfMemory, ErrTerminated, ErrModelRun, ErrBadRequest, ErrUnavailable,
     ErrHttpTimeout}
    \cup {ErrNoSuchModel(m) : m \in Models}
    \cup {ErrServer(r.status_code) : r \in {x \in Responses : x.kind = "http"}}

\* C1: at most one generation is in flight per ChatManager, and a chat() call
\* that finds another one generating is rejected, for every interleaving of
\* the worker threads.
C1_OneGenerationInFlight ==
    /\ Cardinality(InFlight) <= 1
    /\ \A c \in Calls : calls[c].outcome = "rejected" =>
          TurnRows(c, "user") \cup TurnRows(c, "assistant") = {}

C3_StoppedKeepsOnlyUser ==
    \A c \in Calls : calls[c].outcome = "stopped" =>
        TurnRows(c, "assistant") = {} /\ TurnRows(c, "user") # {}

\* a pass of the loop that begins with the stop flag set ends the call as
\* Stopped and writes nothing
C3_StopStep ==
    \A w \in Workers :
        (/\ th[w].pc = "stream"
         /\ stop_requested
         /\ th[w].pos < Len(Streams[th[w].stream])
         /\ th'[w].pc # "stream"
         /\ calls'[th[w].call].error # "stream_read")
        => /\ calls'[th[w].call].outcome = "stopped"
           /\ messages' = messages

\* C3: when the stop flag is seen at a chunk boundary the call ends Stopped,
\* no assistant message is written for the turn and the user message stays,
\* also when the repeat detector tripped on the chunk before.
C3_Cancellation == [] C3_StoppedKeepsOnlyUser /\ [][C3_StopStep]_vars

\* a call stopped by the user after the repeat detector had tripped
C3_StoppedAfterTrip ==
    \E c \in Calls : calls[c].outcome = "stopped" /\ calls[c].tripped

\* C4: every failed generation leaves exactly one assistant message for the
\* turn, and its content is a classified error text.
C4_FailureLeavesOneErrorMessage ==
    \A c \in Calls : calls[c].outcome = "failed" =>
        /\ Cardinality(TurnRows(c, "assistant")) = 1
        /\ \A i \in TurnRows(c, "assistant") : messages[i].content \in ClassifiedTexts

\* C5: no assistant message with blank content is ever stored; a response
\* with nothing visible is stored as the empty-response error.
C5_NoBlankAssistantMessage ==
    \A i \in 1..Len(messages) :
        messages[i].role = "assistant" => Strip(messages[i].content) # <<>>

\* C6: a turn the repeat detector ended is Completed and the assistant
\* message stored is the truncated accumulator followed by the notice.
C6_DegenerateStoresNotice ==
    \A c \in Calls : calls[c].tripped /\ calls[c].outcome = "completed" =>
        \E i \in TurnRows(c, "assistant") :
            messages[i].content \in
                {calls[c].full_response \o RepeatNotice,
                 filter_think_content(calls[c].full_response) \o RepeatNotice}

\* updated_at of a conversation is not before its created_at
C7_UpdatedNotBeforeCreated ==
    \A c \in ConvIds : ConvExists(conversations, c) =>
        conversations[c].updated_at >= conversations[c].created_at

\* no step moves updated_at of a conversation backward
C7_UpdatedAtStep ==
    \A c \in ConvIds :
        ConvExists(conversations, c) /\ ConvExists(conversations', c) =>
            conversations'[c].updated_at >= conversations[c].updated_at

\* C7: updated_at of a conversation is never before created_at and never
\* decreases, whatever writes are made.
C7_UpdatedAtMonotone == [] C7_UpdatedNotBeforeCreated /\ [][C7_UpdatedAtStep]_vars

\* C8: whenever a message row is stored, updated_at of its conversation is
\* the message's timestamp or later.
C8_UpdatedAtReflectsMessages ==
    \A i \in 1..Len(messages) :
        ConvExists(conversations, messages[i].conversation_id) =>
            conversations[messages[i].conversation_id].updated_at
                >= messages[i].timestamp

\* C9: the conversation_id of every stored message is the id of a stored
\* conversation.
C9_MessagesHaveConversation ==
    \A i \in 1..Len(messages) : ConvExists(conversations, messages[i].conversation_id)

\* in the result r the user message of a turn comes before its assistant message
UserFirst(r) ==
    \A i, j \in 1..Len(r) :
        r[i].turn = r[j].turn /\ r[i].role = "user" /\ r[j].role = "assistant" => i < j

\* C10: get_messages and get_messages_by_model return the user message of a
\* turn before the assistant message of the same turn.
C10_UserBeforeAssistant ==
    \A c \in ConvIds :
        /\ \A r \in get_messages(messages, c) : UserFirst(r)
        /\ \A m \in Models : \A r \in get_messages_by_model(messages, c, m) : UserFirst(r)

\* the rowids of the user rows of conversation c
UserRowsOf(c) == {i \in RowsOf(messages, c) : messages[i].role = "user"}

\* the chat() calls that have stored their user message and not yet passed
\* the title step
BeforeTitle == {th[w].call : w \in {v \in Workers : th[v].pc = "title"}}

\* C12: a conversation's title is set once by chat(), from its first user
\* message: a conversation that has a title has a first user message and the
\* title is that message cut to 15 characters, "..." appended when it is
\* longer; a conversation whose user messages were all stored by calls that
\* have passed the title step has a title; and no step of chat() changes a
\* title that is set
C12_TitleOfFirstUserMessage ==
    \A c \in ConvIds :
        ConvExists(conversations, c) =>
            LET users == UserRowsOf(c)
                first == CHOOSE i \in users : \A j \in users : i <= j
            IN  /\ conversations[c].title # <<>> =>
                       /\ users # {}
                       /\ conversations[c].title = TitleOf(messages[first].content)
                /\ (users # {} /\ \A i \in users : messages[i].turn \notin BeforeTitle)
                       => conversations[c].title # <<>>

----------------------------------------------------------------------------
(* The store read back: Database.add_message, get_messages and              *)
(* get_messages_by_model driven directly, database.py:365-435.  A run adds  *)
(* rows and ends with the one call that is examined, recorded in ret.       *)

MaxRows == 2
MaxStamp == 1
Stamps == 0..MaxStamp

\* contents a row can hold: plain text, a closed reasoning span before text,
\* an open reasoning span cut off inside a comparison
StoredTexts ==
    {<<"h", "i">>,
     OpenThink \o <<"x">> \o CloseThink \o <<"o", "k">>,
     OpenThink \o <<"a", "<", "b">>}

\* a ChatManager on a database with the conversations of ConvIds, none of
\* them holding a message yet
StoreInit ==
    /\ now = 0
    /\ conversations = [c \in ConvIds |-> ConvRow(<<>>, "default", 0)]
    /\ messages = <<>>
    /\ current_model = "m1"
    /\ current_chat_id = 0
    /\ is_generating = FALSE
    /\ stop_requested = FALSE
    /\ current_persona = "default"
    /\ ui_chat_id = 0
    /\ ui_stop_requested = FALSE
    /\ th = [w \in Workers |-> IdleFrame]
    /\ calls = <<>>
    /\ user_ops = 0
    /\ ret = NoCall

StoreUnchanged ==
    UNCHANGED <<now, current_model, current_chat_id, is_generating, stop_requested,
                current_persona, ui_chat_id, ui_stop_requested, th, calls, user_ops>>

\* Database.add_message(conv_id, model, role, content, timestamp), 365-391
DbAddMessage(conv_id, model, role, content, timestamp) ==
    /\ ret = NoCall
    /\ Len(messages) < MaxRows
    /\ messages' = add_message_insert(messages, conv_id, model, role, content,
                                      timestamp, 0)
    /\ \E fails \in BOOLEAN :
          conversations' = add_message_update(conversations, conv_id, timestamp, fails)
    /\ UNCHANGED ret
    /\ StoreUnchanged

\* get_messages(conv_id) and get_messages_by_model(conv_id, model), two SELECTs
ReadMessages(conv_id, model) ==
    /\ ret = NoCall
    /\ \E all \in get_messages(messages, conv_id),
          by_model \in get_messages_by_model(messages, conv_id, model) :
          ret' = [op |-> "get_messages", conv_id |-> conv_id, model |-> model,
                  all |-> all, by_model |-> by_model]
    /\ UNCHANGED <<conversations, messages>>
    /\ StoreUnchanged

\* the placeholder of a stored system prompt
Placeholder == <<"{", "u", "s", "e", "r", "_", "i", "d", "e", "n", "t", "i", "t", "y", "}">>
\* the bracketed heading of the appended identity section, with its blank
\* line before and line break after (chat_db.py:418)
IdentityHeading == <<"\n", "\n", "[user identity]", "\n">>
\* the bracketed text put in for an identity that is not set (chat_db.py:421)
UnsetMarker == <<"[unset]">>

\* str.replace(old, new): every occurrence, left to right
RECURSIVE Replace(_, _, _)
Replace(s, old, new) ==
    LET i == Find(s, old, 1)
    IN  IF i = 0 THEN s
        ELSE SubSeq(s, 1, i - 1) \o new \o Replace(From(s, i + Len(old)), old, new)

\* the stored prompts and identities of a persona
SystemPrompts ==
    {<<>>,
     <<"B", "e", " ", "k", "i", "n", "d">>,
     <<"I", " ">> \o Placeholder \o <<";", " ", "y", "o", "u", " ">> \o Placeholder}
UserIdentities == {<<>>, <<"A", "n", "n">>}

\* get_current_persona(): the fields _get_context_messages reads
PersonaConfigs ==
    [type : {"assistant", "roleplay"}, system_prompt : SystemPrompts,
     user_identity : UserIdentities]

\* 411-422: full_prompt, computed only for a stored prompt that is not empty
full_prompt(system_prompt, user_identity) ==
    IF user_identity # <<>>
    THEN IF Find(system_prompt, Placeholder, 1) # 0
         THEN Replace(system_prompt, Placeholder, user_identity)
         ELSE system_prompt \o IdentityHeading \o user_identity
    ELSE Replace(system_prompt, Placeholder, UnsetMarker)

\* 407-423: the system element, present when the stored prompt is not empty
SystemElements(persona) ==
    IF persona.system_prompt # <<>>
    THEN << [role |-> "system",
             content |-> full_prompt(persona.system_prompt, persona.user_identity)] >>
    ELSE <<>>

\* 436-442: one element per row, assistant contents filtered under roleplay
ContextElement(row, is_roleplay) ==
    [role |-> row.role,
     content |-> IF is_roleplay /\ row.role = "assistant"
                 THEN filter_think_content(row.content)
                 ELSE row.content]

\* _get_context_messages over the rows of every model of the conversation
context_of_any_model(ms, chat_id, model, persona) ==
    {[rows |-> r,
      context |-> SystemElements(persona) \o
                  [i \in 1..Len(r) |-> ContextElement(r[i], persona.type = "roleplay")]] :
        r \in get_messages(ms, chat_id)}

\* _get_context_messages, 399-446: the contexts it can return, each with the
\* rows get_messages_by_model gave it
_get_context_messages(ms, chat_id, model, persona) ==
    IF chat_id = None \/ model = NoModel
    THEN {[rows |-> <<>>, context |-> <<>>]}
    ELSE {[rows |-> r,
           context |-> SystemElements(persona) \o
                       [i \in 1..Len(r) |-> ContextElement(r[i], persona.type = "roleplay")]] :
             r \in get_messages_by_model(ms, chat_id, model)}

\* _get_context_messages() of the ChatManager whose current persona is persona
BuildContext(persona) ==
    /\ ret = NoCall
    /\ \E c \in _get_context_messages(messages, current_chat_id, current_model, persona) :
          ret' = [op |-> "context", persona |-> persona, rows |-> c.rows,
                  context |-> c.context]
    /\ UNCHANGED <<conversations, messages>>
    /\ StoreUnchanged

StoreNext ==
    \/ \E c \in ConvIds, m \in Models, role \in {"user", "assistant"},
          content \in StoredTexts, t \in Stamps : DbAddMessage(c, m, role, content, t)
    \/ \E c \in ConvIds, m \in Models : ReadMessages(c, m)
    \/ \E persona \in PersonaConfigs : BuildContext(persona)

StoreSpec == StoreInit /\ [][StoreNext]_vars

\* the rows of a result are in non-decreasing timestamp order
NonDecreasing(r) == \A i, j \in 1..Len(r) : i < j => r[i].timestamp <= r[j].timestamp

\* the rowids of a result
IdsOf(r) == {r[i].id : i \in 1..Len(r)}

IsModelRow(row) == row.model = ret.model

HasSystem == ret.context # <<>> /\ ret.context[1].role = "system"
ContextBody == IF HasSystem THEN Tail(ret.context) ELSE ret.context

\* the rows of the session: current conversation, current model
SessionRows ==
    {i \in RowsOf(messages, current_chat_id) : messages[i].model = current_model}

NoReasoning(text) ==
    \A n \in 1..Len(OpenTags) :
        Find(text, OpenTags[n], 1) = 0 /\ Find(text, CloseTags[n], 1) = 0

\* C14: under a roleplay persona every assistant element of the context is
\* the stored content passed through reasoning stripping and holds no
\* reasoning segment; user elements, and every element under another
\* persona, are the stored content unfiltered
C14_NoReasoningInRoleplayContext ==
    ret.op = "context" =>
        \A i \in 1..Len(ContextBody) :
            IF ret.persona.type = "roleplay" /\ ret.rows[i].role = "assistant"
            THEN /\ ContextBody[i].content = filter_think_content(ret.rows[i].content)
                 /\ NoReasoning(ContextBody[i].content)
            ELSE ContextBody[i].content = ret.rows[i].content

\* the resolved prompt of the context recorded in ret (empty: no system element)
ResolvedPrompt == IF HasSystem THEN ret.context[1].content ELSE <<>>

\* C15: with an identity set and a placeholder in the stored prompt every
\* placeholder is replaced by the identity; with an identity set and no
\* placeholder the identity section is appended, also to an empty stored
\* prompt; with no identity every placeholder is replaced by the unset marker;
\* so a set identity always occurs in the resolved prompt and no placeholder
\* is left in it
C15_IdentityNeverDropped ==
    ret.op = "context" =>
        LET stored == ret.persona.system_prompt
            identity == ret.persona.user_identity
        IN  /\ (identity # <<>> /\ Find(stored, Placeholder, 1) # 0)
                  => ResolvedPrompt = Replace(stored, Placeholder, identity)
            /\ (identity # <<>> /\ Find(stored, Placeholder, 1) = 0)
                  => ResolvedPrompt = stored \o IdentityHeading \o identity
            /\ identity = <<>>
                  => ResolvedPrompt = Replace(stored, Placeholder, UnsetMarker)
            /\ identity # <<>> => Find(ResolvedPrompt, identity, 1) # 0
            /\ Find(ResolvedPrompt, Placeholder, 1) = 0

----------------------------------------------------------------------------
(* A streamed response through the reasoning extraction: the chunks of the  *)
(* response lines are appended to the accumulated text (chat_db.py:588-591, *)
(* components.py update_text), then filter_think_content or                 *)
(* extract_think_content runs on the accumulated text.                      *)

MaxChunks == 4

\* the content chunks a response is delivered in; tag boundaries fall inside
\* chunks
Chunks ==
    {<<"<", "t", "h", "i">>,
     <<"n", "k", ">", "s", "e">>,
     <<"c", "r", "e", "t", "<", "/", "t", "h", "i">>,
     <<"n", "k", ">", "h", "e", "l", "l", "o">>,
     <<"<", "t", "h", "i", "n", "k", ">", "a">>,
     <<"<", "t", "h", "i", "n", "k", ">", "b", "<", "/", "t", "h", "i", "n", "k", ">">>,
     <<"c", "<", "/", "t", "h", "i", "n", "k", ">">>,
     <<"x">>,
     <<"<", "|", "i", "m", "_", "e", "n", "d", "|", ">">>,
     <<"\n", "\n">>}

ChunkSeqs == UNION {[1..n -> Chunks] : n \in 0..MaxChunks}

\* a ChatManager as constructed, and a response about to arrive
TextInit ==
    /\ now = 0
    /\ conversations = [c \in ConvIds |-> NoConv]
    /\ messages = <<>>
    /\ current_model = NoModel
    /\ current_chat_id = None
    /\ is_generating = FALSE
    /\ stop_requested = FALSE
    /\ current_persona = "default"
    /\ ui_chat_id = None
    /\ ui_stop_requested = FALSE
    /\ th = [w \in Workers |-> IdleFrame]
    /\ calls = <<>>
    /\ user_ops = 0
    /\ ret \in {[op |-> "stream", chunks |-> cs, text |-> <<>>] : cs \in ChunkSeqs}

TextUnchanged ==
    UNCHANGED <<now, conversations, messages, current_model, current_chat_id,
                is_generating, stop_requested, current_persona, ui_chat_id,
                ui_stop_requested, th, calls, user_ops>>

\* full_response += chunk
ReceiveChunk ==
    /\ ret.op = "stream"
    /\ ret.chunks # <<>>
    /\ ret' = [ret EXCEPT !.chunks = Tail(ret.chunks),
                          !.text = ret.text \o Head(ret.chunks)]
    /\ TextUnchanged

\* filter_think_content(text) on the accumulated text
FilterThink ==
    /\ ret.op = "stream"
    /\ ret.chunks = <<>>
    /\ ret' = [op |-> "filter", text |-> ret.text,
               visible |-> filter_think_content(ret.text)]
    /\ TextUnchanged

\* filter_think_content again, on its own result
FilterAgain ==
    /\ ret.op = "filter"
    /\ ret' = [op |-> "refilter", text |-> ret.text, visible |-> ret.visible,
               again |-> filter_think_content(ret.visible)]
    /\ TextUnchanged

\* extract_think_content(text) on the accumulated text
ExtractThink ==
    /\ ret.op = "stream"
    /\ ret.chunks = <<>>
    /\ LET r == extract_think_content(ret.text)
       IN  ret' = [op |-> "extract", text |-> ret.text,
                   think |-> r.think_content, visible |-> r.main_content]
    /\ TextUnchanged

\* the text shown while the stream is still arriving: filter_think_content
\* and extract_think_content on what has been accumulated so far
FilterPartial ==
    /\ ret.op = "stream"
    /\ ret.chunks # <<>>
    /\ ret.text # <<>>
    /\ ret' = [op |-> "partial", text |-> ret.text,
               visible |-> filter_think_content(ret.text),
               main_content |-> extract_think_content(ret.text).main_content]
    /\ TextUnchanged

TextNext == ReceiveChunk \/ FilterThink \/ FilterAgain \/ ExtractThink \/ FilterPartial

TextSpec == TextInit /\ [][TextNext]_vars

\* the tag kind whose delimiter from tags starts at s[i], 0 when none does
TagAt(s, tags, i) ==
    LET hits == {n \in 1..Len(tags) : StartsAt(s, tags[n], i)}
    IN  IF hits = {} THEN 0 ELSE CHOOSE n \in hits : TRUE

\* reads s from index i with the stack of open spans: whether every
\* delimiter of s opens a span or closes the innermost open one and no span
\* is left open, and the characters of s outside every span
RECURSIVE ScanSpans(_, _, _, _)
ScanSpans(s, i, stack, outside) ==
    IF i > Len(s) THEN [closed |-> stack = <<>>, outside |-> outside]
    ELSE LET o == TagAt(s, OpenTags, i)
             c == TagAt(s, CloseTags, i)
         IN  IF o # 0 THEN ScanSpans(s, i + Len(OpenTags[o]), <<o>> \o stack, outside)
             ELSE IF c # 0
             THEN IF stack # <<>> /\ Head(stack) = c
                  THEN ScanSpans(s, i + Len(CloseTags[c]), Tail(stack), outside)
                  ELSE [closed |-> FALSE, outside |-> outside]
             ELSE ScanSpans(s, i + 1, stack,
                            IF stack = <<>> THEN Append(outside, s[i]) ELSE outside)

\* a text all of whose reasoning tags are well formed: fully closed spans
FullyClosed(text) == ScanSpans(text, 1, <<>>, <<>>).closed
OutsideSpans(text) == ScanSpans(text, 1, <<>>, <<>>).outside

NotWhitespace(ch) == ch \notin Whitespace
\* a text without its template markers and its whitespace
Squeezed(text) == SelectSeq(RemoveMarkers(RemoveMarkers(text, ImEnd), ImStart), NotWhitespace)

\* C16: reasoning extraction is idempotent: for a text whose reasoning tags
\* (none, one or several) are well formed, filtering the filtered text again
\* changes nothing, and the filtered text never holds three newlines in a row
C16_FilterIdempotent ==
    (ret.op = "refilter" /\ FullyClosed(ret.text)) =>
        /\ ret.again = ret.visible
        /\ Find(ret.visible, <<"\n", "\n", "\n">>, 1) = 0

\* C17: for a text that holds only fully closed spans, the visible text that
\* filter_think_content and extract_think_content give holds no tag
\* delimiter and nothing of the spans' interiors, and keeps what is outside
\* the spans (compared without whitespace and template markers)
C17_ClosedSpansRemoved ==
    (ret.op \in {"filter", "extract"} /\ FullyClosed(ret.text)) =>
        /\ NoReasoning(ret.visible)
        /\ Squeezed(ret.visible) = Squeezed(OutsideSpans(ret.text))

\* the text recorded in ret is <think>R</think>V with no further tag
ThinkThenVisible ==
    /\ StartsAt(ret.text, OpenThink, 1)
    /\ Find(ret.text, CloseThink, 1) # 0
    /\ NoReasoning(SubSeq(ret.text, Len(OpenThink) + 1, Find(ret.text, CloseThink, 1) - 1))
    /\ NoReasoning(From(ret.text, Find(ret.text, CloseThink, 1) + Len(CloseThink)))

\* C18: for a response <think>R</think>V, however it was cut into chunks,
\* extract_think_content on the accumulated text gives the reasoning text R,
\* once, and the visible text V
C18_ReasoningOnce ==
    (ret.op = "extract" /\ ThinkThenVisible) =>
        LET j == Find(ret.text, CloseThink, 1)
        IN  /\ ret.think = Strip(SubSeq(ret.text, Len(OpenThink) + 1, j - 1))
            /\ ret.visible = filter_think_content(From(ret.text, j + Len(CloseThink)))

----------------------------------------------------------------------------
(* A response that repeats itself through a fresh RepeatDetector(20, 3):    *)
(* the copies of a pattern are appended to the accumulated text, then       *)
(* check(text) and truncate(text) run, chat_db.py:222-283.                  *)

MaxCopies == 4
LongestPattern == 25

Letters == <<"a", "b", "c", "d", "e", "f", "g", "h", "i", "j", "k", "l", "m",
             "n", "o", "p", "q", "r", "s", "t", "u", "v", "w", "x", "y">>

\* the patterns: n different letters, and the same with a space as the last
\* character
RepeatPatterns ==
    {SubSeq(Letters, 1, n) : n \in MinPatternLen..LongestPattern}
    \cup {SubSeq(Letters, 1, n - 1) \o <<" ">> : n \in MinPatternLen..LongestPattern}

RepeatInit ==
    /\ now = 0
    /\ conversations = [c \in ConvIds |-> NoConv]
    /\ messages = <<>>
    /\ current_model = NoModel
    /\ current_chat_id = None
    /\ is_generating = FALSE
    /\ stop_requested = FALSE
    /\ current_persona = "default"
    /\ ui_chat_id = None
    /\ ui_stop_requested = FALSE
    /\ th = [w \in Workers |-> IdleFrame]
    /\ calls = <<>>
    /\ user_ops = 0
    /\ ret \in {[op |-> "repeat", pattern |-> P, copies |-> k, text |-> <<>>] :
                  P \in RepeatPatterns, k \in MaxRepeats..MaxCopies}

\* full_response += chunk, the chunk being one more copy of the pattern
AppendCopy ==
    /\ ret.op = "repeat"
    /\ ret.copies > 0
    /\ ret' = [ret EXCEPT !.copies = ret.copies - 1, !.text = ret.text \o ret.pattern]
    /\ TextUnchanged

\* check(text) on a fresh detector
CheckRepeat ==
    /\ ret.op = "repeat"
    /\ ret.copies = 0
    /\ ret' = [op |-> "check", pattern |-> ret.pattern, text |-> ret.text,
               detector |-> RepeatCheck(ret.text)]
    /\ TextUnchanged

\* truncate(text) on the detector check() left
TruncateRepeat ==
    /\ ret.op = "check"
    /\ ret' = [op |-> "truncate", pattern |-> ret.pattern, text |-> ret.text,
               detector |-> ret.detector,
               truncated |-> RepeatTruncate(ret.detector, ret.text)]
    /\ TextUnchanged

RepeatNext == AppendCopy \/ CheckRepeat \/ TruncateRepeat

RepeatSpec == RepeatInit /\ [][RepeatNext]_vars

\* C19: for a text of three or more back-to-back copies of a pattern of 20 to
\* 199 characters, check(text) on a fresh RepeatDetector(20, 3) returns true
\* and truncate(text) returns the first copy of the pattern, trailing
\* whitespace trimmed
C19_TruncatedToFirstCopy ==
    ret.op = "truncate" =>
        /\ ret.detector.hit
        /\ ret.truncated = RStrip(ret.pattern)

----------------------------------------------------------------------------
(* The options of an outgoing request: /api/chat built by chat(),           *)
(* chat_db.py:508-526, and /api/generate built by generate_suggestions,     *)
(* chat_db.py:992-1003.  temperature and top_p are in tenths.               *)

\* the values the settings panel can hand over for a parameter
\* (chat_settings_panel.py:141-149)
OptionValues ==
    [temperature |-> {7}, top_k |-> {1, 40}, num_predict |-> {-1, 128},
     seed |-> {-1, 42}]
OptionKeys == DOMAIN OptionValues

\* the options dicts send_message can pass to chat(); the empty one stands
\* for None as well, both are falsy at 516
OptionDicts ==
    UNION {{o \in [keys -> UNION {OptionValues[k] : k \in keys}] :
               \A k \in keys : o[k] \in OptionValues[k]} : keys \in SUBSET OptionKeys}

\* a ChatManager as constructed with a model chosen, and the options of the
\* settings panel
OptionsInit ==
    /\ now = 0
    /\ conversations = [c \in ConvIds |-> NoConv]
    /\ messages = <<>>
    /\ current_model \in Models
    /\ current_chat_id = None
    /\ is_generating = FALSE
    /\ stop_requested = FALSE
    /\ current_persona = "default"
    /\ ui_chat_id = None
    /\ ui_stop_requested = FALSE
    /\ th = [w \in Workers |-> IdleFrame]
    /\ calls = <<>>
    /\ user_ops = 0
    /\ ret \in {[op |-> "options", options |-> o] : o \in OptionDicts}

\* 516-526: filtered_options
filtered_options(options) ==
    LET kept == {k \in DOMAIN options :
                    /\ ~(k = "num_predict" /\ options[k] = -1)
                    /\ ~(k = "seed" /\ options[k] = -1)}
    IN  [k \in kept |-> options[k]]

\* 992-1003: the options generate_suggestions sends
suggestions_options ==
    ("temperature" :> 8) @@ ("num_predict" :> -1) @@ ("num_ctx" :> 4096)
    @@ ("top_k" :> 40) @@ ("top_p" :> 9)

\* request_data of chat(); "options" is only set for a non-empty
\* filtered_options, which the empty function stands for
ChatRequest ==
    /\ ret.op = "options"
    /\ ret' = [op |-> "chat_request", options |-> ret.options,
               request |-> [endpoint |-> "/api/chat", model |-> current_model,
                            stream |-> TRUE,
                            options |-> filtered_options(ret.options)]]
    /\ TextUnchanged

\* request_body of generate_suggestions()
SuggestionsRequest ==
    /\ ret.op = "options"
    /\ current_model # NoModel
    /\ ret' = [op |-> "suggestions_request", options |-> ret.options,
               request |-> [endpoint |-> "/api/generate", model |-> current_model,
                            stream |-> FALSE, options |-> suggestions_options]]
    /\ TextUnchanged

OptionsNext == ChatRequest \/ SuggestionsRequest

OptionsSpec == OptionsInit /\ [][OptionsNext]_vars

\* an options mapping carries a sentinel: num_predict = -1 or seed = -1
CarriesSentinel(o) ==
    \E k \in {"num_predict", "seed"} : k \in DOMAIN o /\ o[k] = -1

\* C20: no outgoing request, /api/chat of chat() or /api/generate of
\* generate_suggestions, carries num_predict = -1 or seed = -1 in its
\* options, and chat() passes every other option on unchanged
C20_NoSentinelSent ==
    /\ ret.op \in {"chat_request", "suggestions_request"}
          => ~CarriesSentinel(ret.request.options)
    /\ ret.op = "chat_request" =>
          /\ DOMAIN ret.request.options \subseteq DOMAIN ret.options
          /\ \A k \in DOMAIN ret.options :
                IF k \in {"num_predict", "seed"} /\ ret.options[k] = -1
                THEN k \notin DOMAIN ret.request.options
                ELSE k \in DOMAIN ret.request.options
                     /\ ret.request.options[k] = ret.options[k]

\* C26: after check(text) returned true, first_occurrence is an offset into
\* the whole text at which detected_pattern stands, and truncate(text) is the
\* text cut right after that occurrence, trailing whitespace trimmed, also
\* when the occurrence starts at offset 0; when nothing was flagged,
\* truncate(text) is the text
C26_CutAfterFirstOccurrence ==
    ret.op = "truncate" =>
        LET d == ret.detector
            end == d.first_occurrence + Len(d.detected_pattern)
        IN  IF d.hit
            THEN /\ d.first_occurrence >= 0
                 /\ end <= Len(ret.text)
                 /\ SubSeq(ret.text, d.first_occurrence + 1, end) = d.detected_pattern
                 /\ ret.truncated = RStrip(SubSeq(ret.text, 1, end))
            ELSE ret.truncated = ret.text

----------------------------------------------------------------------------
(* The is_generating flag over the whole of a chat() call *)

\* no call stands between is_generating = True and the finally clause
Quiescent == InFlight = {}

\* a call that had set the flag returns: the flag is false afterwards
C24_ReturnStep ==
    \A w \in Workers :
        (w \in InFlight /\ th'[w].pc = "done") => ~is_generating'

\* a call returns from one of the two tests at the top: the flag is untouched
C24_RejectStep ==
    \A w \in Workers :
        (th[w].pc = "call" /\ th'[w].pc = "done") => is_generating' = is_generating

\* C24: every chat() call that set is_generating clears it when it returns,
\* whichever way it ends (completed, stopped, stopped by the repeat detector,
\* classified error, exception), so that the flag is false whenever no call
\* is running; a call rejected at the top leaves the flag as it found it.
C24_FlagClearedOnReturn ==
    /\ [](Quiescent => ~is_generating)
    /\ [][C24_ReturnStep /\ C24_RejectStep]_vars

\* a call was rejected, another ended through the except clause, and the
\* manager is idle again
C24_IdleAfterRejectAndException ==
    /\ Quiescent
    /\ ~is_generating
    /\ \E c \in Calls : calls[c].outcome = "rejected"
    /\ \E c \in Calls : calls[c].error \in {"exception", "stream_read"}

----------------------------------------------------------------------------
(* Where the closing message of a turn is written *)

\* C28: the assistant or error row that ends a turn carries the conversation
\* id and the model of the user row that began the turn, whatever the UI
\* thread did to the manager while the call was running
C28_TurnInOneConversation ==
    \A c \in Calls :
        \A u \in TurnRows(c, "user"), a \in TurnRows(c, "assistant") :
            /\ messages[a].conversation_id = messages[u].conversation_id
            /\ messages[a].model = messages[u].model

----------------------------------------------------------------------------
(* A stop seen by the window and what the store holds *)

\* chat() returns while the window's _stop_requested is set: on_chat_done
\* will take the turn for a stopped one
ReturnsAsStopped(w) ==
    /\ w \in InFlight
    /\ th'[w].pc = "done"
    /\ ui_stop_requested

C29_StoppedReturnStep ==
    \A w \in Workers :
        ReturnsAsStopped(w) =>
            \A i \in 1..Len(messages') :
                ~(messages'[i].turn = th[w].call /\ messages'[i].role = "assistant")

\* C29: a turn that on_chat_done treats as stopped (the stop was requested
\* before chat() returned) has no assistant message in the store
C29_StoppedTurnHasNoReply == [][C29_StoppedReturnStep]_vars

----------------------------------------------------------------------------
(* ChatManager used through its own interface: chat() on a thread,
   set_model(), and the public stop_requested attribute.  ret records for
   which running threads a stop was asked since they were started. *)

ManagerInit ==
    /\ now = 0
    /\ conversations = [c \in ConvIds |-> NoConv]
    /\ messages = <<>>
    /\ current_model = NoModel
    /\ current_chat_id = None
    /\ is_generating = FALSE
    /\ stop_requested = FALSE
    /\ current_persona = "default"
    /\ ui_chat_id = None
    /\ ui_stop_requested = FALSE
    /\ th = [w \in Workers |-> IdleFrame]
    /\ calls = <<>>
    /\ user_ops = 0
    /\ ret = [op |-> "caller", asked |-> {}]

\* chat_db.py:456, chat(user_message, ...) is invoked on a thread of its own;
\* nothing is written before the tests at 465-468
CallChat(w, text) ==
    /\ th[w].pc = "idle"
    /\ \A v \in Workers : th[v].pc = "idle" => w <= v
    /\ user_ops < MaxUserOps
    /\ user_ops' = user_ops + 1
    /\ th' = [th EXCEPT ![w] = [IdleFrame EXCEPT !.pc = "call", !.user_message = text]]
    /\ ret' = [ret EXCEPT !.asked = @ \ {w}]
    /\ UNCHANGED <<now, conversations, messages, current_model, current_chat_id,
                   is_generating, stop_requested, current_persona, ui_chat_id,
                   ui_stop_requested, calls>>

\* chat_manager.stop_requested = True, the only way to ask for a stop
\* (chat_db.py:296 declares the attribute, app.py:1529 assigns it)
RequestStop ==
    /\ ~stop_requested
    /\ stop_requested' = TRUE
    /\ user_ops < MaxUserOps
    /\ user_ops' = user_ops + 1
    /\ ret' = [ret EXCEPT !.asked = @ \cup {w \in Workers : th[w].pc \notin {"idle", "done"}}]
    /\ UNCHANGED <<now, conversations, messages, current_model, current_chat_id,
                   is_generating, current_persona, ui_chat_id, ui_stop_requested,
                   th, calls>>

\* the caller takes the value chat() returned
TakeResult(w) ==
    /\ th[w].pc = "done"
    /\ th' = [th EXCEPT ![w] = IdleFrame]
    /\ ret' = [ret EXCEPT !.asked = @ \ {w}]
    /\ UNCHANGED <<now, user_ops, conversations, messages, current_model, current_chat_id,
                   is_generating, stop_requested, current_persona, ui_chat_id,
                   ui_stop_requested, calls>>

ManagerNext ==
    \/ Tick
    \/ \E m \in Models : SetModel(m)
    \/ \E w \in Workers, text \in UserTexts : CallChat(w, text)
    \/ RequestStop
    \/ \E w \in Workers : TakeResult(w)
    \/ \E w \in Workers : ChatCheck(w)
    \/ \E w \in Workers : ChatEnter(w)
    \/ \E w \in Workers : ChatOpen(w)
    \/ \E w \in Workers, r \in Responses : ChatResponse(w, r)
    \/ \E w \in Workers : ChatLine(w)
    \/ \E w \in Workers : ChatStreamEnd(w)
    \/ \E w \in Workers : ChatReadError(w)

ManagerSpec == ManagerInit /\ [][ManagerNext]_vars

\* C30: a call ends as Stopped only when a stop was asked for while that call
\* was running; a flag that was already set when the call was started (set
\* while idle, or left from an earlier turn) does not stop it
C30_StoppedOnlyByOwnStop ==
    \A w \in Workers :
        (th[w].pc = "done" /\ calls[th[w].call].outcome = "stopped") => w \in ret.asked

----------------------------------------------------------------------------
(* The visible text while reasoning is still arriving *)

\* the index of the first opening tag of text, 0 when there is none
FirstOpen(text) ==
    LET hits == {i \in 1..Len(text) : TagAt(text, OpenTags, i) # 0}
    IN  IF hits = {} THEN 0 ELSE CHOOSE i \in hits : \A j \in hits : i <= j

\* an opening tag has been received and no closing tag is complete yet
ReasoningInProgress(text) ==
    /\ FirstOpen(text) # 0
    /\ \A i \in 1..Len(text) : TagAt(text, CloseTags, i) = 0

\* C25: while a stream is arriving, once an opening tag has been received and
\* as long as no closing tag is complete, the visible text is that of the
\* text in front of the opening tag: nothing behind the tag shows, also when
\* the reasoning holds a '<' or ends in a part of the closing tag
C25_ReasoningInProgressHidden ==
    (ret.op = "partial" /\ ReasoningInProgress(ret.text)) =>
        LET shown == filter_think_content(SubSeq(ret.text, 1, FirstOpen(ret.text) - 1))
        IN  /\ ret.visible = shown
            /\ ret.main_content = shown

----------------------------------------------------------------------------
(* The ids new_chat() hands out *)

\* a step in which ChatManager.new_chat runs: from new_chat_with_persona,
\* from send_message without a current chat, from chat() without one
NewChatStep ==
    \/ \E p \in Personas : NewChatWithPersona(p)
    \/ ui_chat_id = None /\ \E w \in Workers, text \in UserTexts : SendMessage(w, text)
    \/ current_chat_id = None /\ \E w \in Workers : ChatEnter(w)

\* C23: every new_chat() makes a conversation whose id no conversation had
\* before the call, also for two calls within one clock second: afterwards
\* current_chat_id is not the id of a conversation that was there before
C23_NewChatIdIsNew ==
    [][NewChatStep => ~ConvExists(conversations, current_chat_id')]_vars

----------------------------------------------------------------------------
(* The personas table: Database.add_persona / get_persona / delete_persona,
   database.py:564-665, and the ChatManager methods over them.  ret holds the
   table, the debug value of config.json, and the last call with its result *)

\* a ChatManager as constructed with nothing under way; ret is left to the
\* specification that uses it
FreshManager ==
    /\ now = 0
    /\ conversations = [c \in ConvIds |-> NoConv]
    /\ messages = <<>>
    /\ current_model = NoModel
    /\ current_chat_id = None
    /\ is_generating = FALSE
    /\ stop_requested = FALSE
    /\ current_persona = "default"
    /\ ui_chat_id = None
    /\ ui_stop_requested = FALSE
    /\ th = [w \in Workers |-> IdleFrame]
    /\ calls = <<>>
    /\ user_ops = 0

PersonaNames == {"n1", "n2"}
DefaultName == "default assistant"
PersonaRows == [key : Personas, name : PersonaNames \cup {DefaultName}]

\* key TEXT PRIMARY KEY: the tables the schema admits
PersonaTables ==
    {t \in SUBSET PersonaRows : \A r, s \in t : r.key = s.key => r = s}

\* SELECT * FROM personas WHERE key = ?
Database_get_persona(table, key) == {r \in table : r.key = key}

\* INSERT OR REPLACE INTO personas
Database_add_persona(table, row) == {r \in table : r.key # row.key} \cup {row}

\* DELETE FROM personas WHERE key = ?
Database_delete_persona(table, key) == {r \in table : r.key # key}

\* chat_db.py:302-311
_ensure_default_persona(table) ==
    IF Database_get_persona(table, "default") = {}
    THEN Database_add_persona(table, [key |-> "default", name |-> DefaultName])
    ELSE table

\* a delete_persona without the test at 375
delete_persona_unguarded(table, key, debug_mode) ==
    [table |-> Database_delete_persona(table, key), result |-> TRUE]

\* chat_db.py:351-378; debug_mode is config.json's "debug"
delete_persona(table, key, debug_mode) ==
    IF key = "default" /\ ~debug_mode
    THEN [table |-> table, result |-> FALSE]
    ELSE [table |-> Database_delete_persona(table, key), result |-> TRUE]

\* a database file as an earlier run may have left it, config.json as it is
PersonaInit ==
    /\ FreshManager
    /\ ret \in {[op |-> "personas", debug |-> d, constructed |-> FALSE, table |-> t,
                 call |-> <<"none", "">>, result |-> "none"] :
                    d \in BOOLEAN, t \in PersonaTables}

\* ChatManager.__init__, chat_db.py:288-300
Construct ==
    /\ ret.op = "personas"
    /\ ~ret.constructed
    /\ ret' = [ret EXCEPT !.constructed = TRUE,
                          !.table = _ensure_default_persona(ret.table),
                          !.call = <<"__init__", "">>, !.result = "none"]
    /\ TextUnchanged

\* ChatManager.add_persona and update_persona, chat_db.py:331-349: both pass
\* fifteen positional arguments to Database.add_persona, which takes twelve;
\* the call raises TypeError before any statement of add_persona runs
AddPersona(name, row) ==
    /\ ret.op = "personas"
    /\ ret.constructed
    /\ ret' = [ret EXCEPT !.call = <<name, row.key>>, !.result = "TypeError"]
    /\ TextUnchanged

\* Database.add_persona called with keywords, as initialization.py:198-207
\* and 248-255 do
ImportPersona(row) ==
    /\ ret.op = "personas"
    /\ ret' = [ret EXCEPT !.table = Database_add_persona(ret.table, row),
                          !.call = <<"Database.add_persona", row.key>>,
                          !.result = TRUE]
    /\ TextUnchanged

\* ChatManager.delete_persona(key)
DeletePersona(key) ==
    /\ ret.op = "personas"
    /\ ret.constructed
    /\ LET r == delete_persona(ret.table, key, ret.debug)
       IN  ret' = [ret EXCEPT !.table = r.table, !.call = <<"delete_persona", key>>,
                              !.result = r.result]
    /\ TextUnchanged

PersonaNext ==
    \/ Construct
    \/ \E row \in PersonaRows : AddPersona("add_persona", row)
    \/ \E row \in PersonaRows : AddPersona("update_persona", row)
    \/ \E row \in PersonaRows : ImportPersona(row)
    \/ \E key \in Personas : DeletePersona(key)

PersonaSpec == PersonaInit /\ [][PersonaNext]_vars

\* outside debug mode a constructed manager has exactly one default persona
C22_OneDefault ==
    (ret.op = "personas" /\ ret.constructed /\ ~ret.debug) =>
        Cardinality(Database_get_persona(ret.table, "default")) = 1

\* outside debug mode delete_persona("default") returns False and changes
\* nothing in the table
C22_DeleteDefaultStep ==
    (DeletePersona("default") /\ ~ret.debug) =>
        ret'.result = FALSE /\ ret'.table = ret.table

\* C22: outside debug mode, once ChatManager is constructed exactly one
\* persona row has the key "default" in every reachable state, and
\* delete_persona("default") returns False and leaves the table as it was,
\* whatever add_persona, update_persona and delete_persona calls are made
C22_DefaultPersonaKept == [] C22_OneDefault /\ [][C22_DeleteDefaultStep]_vars

\* the default persona was missing from the database file, the constructor
\* put it there, and a delete_persona("default") outside debug mode was
\* refused with another persona in the table
C22_DeleteDefaultRefused ==
    /\ ret.op = "personas"
    /\ ~ret.debug
    /\ ret.call = <<"delete_persona", "default">>
    /\ ret.result = FALSE
    /\ [key |-> "default", name |-> DefaultName] \in ret.table
    /\ Cardinality(ret.table) = 2

----------------------------------------------------------------------------
(* The suggestion workers of MainWindow, ui/app.py:1576-1637.  ret.workers
   are the WorkerThreads created so far, the last one is
   self.suggestion_worker; ret.shown are the results on_generated received,
   each with the number of requests started by then *)

MaxRequests == 4

SuggestInit ==
    /\ FreshManager
    /\ ret = [op |-> "suggest", workers |-> <<>>, shown |-> <<>>]

\* WorkerThread.__init__ and start(), app.py:39-44
NewWorker == [pc |-> "running", _is_cancelled |-> FALSE]

\* generate_suggestions past its early returns, 1606-1637: quit() ends an
\* event loop, which a thread inside run() does not have, so it changes
\* nothing; wait(500) returns when the thread has finished or after 500 ms
GenerateSuggestions ==
    /\ ret.op = "suggest"
    /\ Len(ret.workers) < MaxRequests
    /\ LET n == Len(ret.workers)
           isRunning == n > 0 /\ ret.workers[n].pc = "running"
       IN  \E finished_in_wait \in BOOLEAN :
              /\ finished_in_wait => isRunning
              /\ ret' = [ret EXCEPT !.workers =
                            Append(IF finished_in_wait
                                   THEN [ret.workers EXCEPT ![n].pc =
                                            IF ret.workers[n]._is_cancelled
                                            THEN "ended" ELSE "emitted"]
                                   ELSE ret.workers,
                                   NewWorker)]
    /\ TextUnchanged

\* WorkerThread.run, 54-62: func returns, finished is emitted unless the
\* thread was cancelled; the slot is queued for the UI thread
WorkerRun(i) ==
    /\ ret.op = "suggest"
    /\ i \in 1..Len(ret.workers)
    /\ ret.workers[i].pc = "running"
    /\ ret' = [ret EXCEPT !.workers[i].pc =
                  IF ret.workers[i]._is_cancelled THEN "ended" ELSE "emitted"]
    /\ TextUnchanged

\* on_generated, 1627-1633, for the finished signal of worker i
OnGenerated(i) ==
    /\ ret.op = "suggest"
    /\ i \in 1..Len(ret.workers)
    /\ ret.workers[i].pc = "emitted"
    /\ ret' = [ret EXCEPT !.workers[i].pc = "ended",
                          !.shown = Append(@, [worker |-> i, requests |-> Len(ret.workers)])]
    /\ TextUnchanged

SuggestNext ==
    \/ GenerateSuggestions
    \/ \E i \in 1..MaxRequests : WorkerRun(i)
    \/ \E i \in 1..MaxRequests : OnGenerated(i)

SuggestSpec == SuggestInit /\ [][SuggestNext]_vars

\* C27: at most one suggestion call is running at a time, and a result is
\* handed to on_generated only while its request is the newest one: once a
\* later request was started the earlier result is not shown any more
C27_OneSuggestionCall ==
    ret.op = "suggest" =>
        /\ Cardinality({i \in 1..Len(ret.workers) : ret.workers[i].pc = "running"}) <= 1
        /\ \A k \in 1..Len(ret.shown) : ret.shown[k].worker = ret.shown[k].requests

----------------------------------------------------------------------------
(* init_database and its two migrations on the personas table,
   database.py:36-264.  ret holds the columns of the table, one persona row,
   the number of init_database runs and of failures the migrations logged *)

MaxRuns == 3

\* CREATE TABLE IF NOT EXISTS personas, 81-90
BaseColumns == {"key", "name", "icon", "icon_path", "description", "system_prompt"}
\* columns of older databases that 211 asks for
LegacyColumns == {"greeting", "scenarios"}
\* the columns the migrations add
MigratedColumns ==
    {"type", "background_images", "scene_designs", "enable_suggestions", "gender",
     "user_identity"}

Absent == "absent"
Scenarios4 == <<"a", "b", "c", "d">>

\* the value a column has in the row, Absent when the table has no such column
ColumnValues(cols, name, values) == IF name \in cols THEN values ELSE {Absent}
\* the same for a column that holds a JSON list
ListValues(cols, name, values) == IF name \in cols THEN values ELSE {<<Absent>>}

\* a row of the personas table with these columns: whether icon or name match
\* the list at 162-170, and the columns the migrations read or write
PersonaRowsWith(cols) ==
    [looks_roleplay : BOOLEAN,
     greeting      : ColumnValues(cols, "greeting", {"", "hello"}),
     scenarios     : ListValues(cols, "scenarios", {<<>>, Scenarios4}),
     type          : ColumnValues(cols, "type", {"assistant", "roleplay"}),
     scene_designs : ListValues(cols, "scene_designs", {<<>>})]

\* the database files init_database may find: the base table with any of the
\* legacy columns and any of the migrated ones
SchemaInit ==
    /\ FreshManager
    /\ \E legacy \in SUBSET LegacyColumns, migrated \in SUBSET MigratedColumns :
          LET cols == BaseColumns \cup legacy \cup migrated
          IN  \E row \in PersonaRowsWith(cols) :
                 ret = [op |-> "schema", columns |-> cols, row |-> row, runs |-> 0,
                        logged |-> 0]

\* 139-188
_migrate_add_persona_type(db) ==
    LET typed == IF "type" \notin db.columns
                 THEN [db EXCEPT !.columns = @ \cup {"type"},
                                 !.row.type = IF db.row.looks_roleplay
                                              THEN "roleplay" ELSE "assistant"]
                 ELSE db
    IN  [typed EXCEPT !.columns = @ \cup {"background_images"}]

\* scenarios[:3]
FirstThree(s) == SubSeq(s, 1, Min(3, Len(s)))

\* 190-264; the column list is read once, at 197-198; SELECT key, greeting,
\* scenarios raises when one of the two columns is missing, and the handler
\* at 263 ends the migration there
_migrate_add_roleplay_fields(db) ==
    LET columns == db.columns
        added == [db EXCEPT !.columns = @ \cup {"scene_designs"}, !.row.scene_designs = <<>>]
        merged == IF db.row.greeting # "" \/ db.row.scenarios # <<>>
                  THEN [added EXCEPT !.row.scene_designs =
                           <<[scene |-> db.row.greeting,
                              suggestions |-> FirstThree(db.row.scenarios)]>>]
                  ELSE added
        rest(d) == [d EXCEPT !.columns = @ \cup {"enable_suggestions", "gender",
                                                 "user_identity"}]
    IN  IF "scene_designs" \in columns THEN rest(db)
        ELSE IF LegacyColumns \cap columns = {} THEN rest(added)
        ELSE IF LegacyColumns \subseteq columns THEN rest(merged)
        ELSE [added EXCEPT !.logged = @ + 1]

\* init_database, 36-137
init_database(db) ==
    [_migrate_add_roleplay_fields(_migrate_add_persona_type(db)) EXCEPT !.runs = @ + 1]

\* the application starts: Database.__init__ runs init_database
InitDatabase ==
    /\ ret.op = "schema"
    /\ ret.runs < MaxRuns
    /\ ret' = init_database(ret)
    /\ TextUnchanged

\* Database.add_persona between two starts, 564-589: INSERT OR REPLACE names
\* all six migrated columns and fails without them; the columns it does not
\* name get their default
EditPersona(persona_type, scene) ==
    /\ ret.op = "schema"
    /\ ret.runs > 0
    /\ MigratedColumns \subseteq ret.columns
    /\ ret' = [ret EXCEPT
                  !.row.type = persona_type,
                  !.row.scene_designs = <<[scene |-> scene, suggestions |-> <<>>]>>,
                  !.row.greeting = IF "greeting" \in ret.columns THEN "" ELSE Absent,
                  !.row.scenarios = IF "scenarios" \in ret.columns THEN <<>> ELSE <<Absent>>]
    /\ TextUnchanged

SchemaNext ==
    \/ InitDatabase
    \/ \E t \in {"assistant", "roleplay"}, scene \in {"edited"} : EditPersona(t, scene)

SchemaSpec == SchemaInit /\ [][SchemaNext]_vars

\* a run of init_database after the first changes neither the columns nor
\* the row; any run leaves alone the type and the scene_designs of a table
\* that had the column already
C21_RunStep ==
    InitDatabase =>
        /\ ret.runs >= 1 => (ret'.columns = ret.columns /\ ret'.row = ret.row)
        /\ "type" \in ret.columns => ret'.row.type = ret.row.type
        /\ "scene_designs" \in ret.columns => ret'.row.scene_designs = ret.row.scene_designs

\* C21: running init_database again on the same database changes nothing:
\* the columns and the persona rows stay as the first run left them, and the
\* roleplay classification and the merge of greeting and scenarios into
\* scene_designs happen only in the run that adds the column
C21_MigrationRunsOnce == [][C21_RunStep]_vars

====
